---- MODULE Spec2Model ----
(***************************************************************************)
(* A model of hoardertools' RAID calculator (src/com/heresjono/raidcalc.py). *)
(*                                                                         *)
(* Units.  capacity: MB (1e6 bytes); speed and throughput: MB/s; cost:     *)
(* cents; times: whole hours; probabilities (afr, hourly_failure, ...):    *)
(* fixed point, 1.0 = Scale.  Python's floats are modelled at that         *)
(* resolution, every product rounded down.                                 *)
(*                                                                         *)
(* A Python number is a record [v, f]: its value and whether it is a       *)
(* float (f) or an int.  The distinction matters where the code calls a    *)
(* comparison method directly (print_notable_configs).                     *)
(*                                                                         *)
(* A Disk is a record that carries its object identity (id): the class     *)
(* defines no __eq__, so == on disks is identity, and record equality in   *)
(* the model is identity because no two objects share an id.               *)
(***************************************************************************)
EXTENDS Integers, Sequences, FiniteSets, TLC

\* ------------------------------------------------------------------------
\* Python numbers and builtins
\* ------------------------------------------------------------------------

I(v) == [v |-> v, f |-> FALSE]
F(v) == [v |-> v, f |-> TRUE]

\* a + b and a * n for numbers: the result is a float when an operand is.
NumAdd(a, b) == [v |-> a.v + b.v, f |-> a.f \/ b.f]
NumMulInt(a, n) == [v |-> a.v * n, f |-> a.f]

RECURSIVE PySumFrom(_, _, _)
PySumFrom(s, i, acc) ==
    IF i > Len(s) THEN acc ELSE PySumFrom(s, i + 1, NumAdd(acc, s[i]))

\* sum(list): starts from the int 0.
PySum(s) == PySumFrom(s, 1, I(0))

RECURSIVE PyMinFrom(_, _, _)
PyMinFrom(s, i, best) ==
    IF i > Len(s) THEN best
    ELSE PyMinFrom(s, i + 1, IF s[i].v < best.v THEN s[i] ELSE best)

\* min(list) of a non-empty list: the first of the smallest elements.
PyMin(s) == PyMinFrom(s, 2, s[1])

RECURSIVE SumInt(_)
SumInt(s) == IF s = << >> THEN 0 ELSE Head(s) + SumInt(Tail(s))

RECURSIVE MaxInt(_)
MaxInt(s) ==
    IF Len(s) = 1 THEN s[1]
    ELSE LET m == MaxInt(Tail(s)) IN IF m > s[1] THEN m ELSE s[1]

Max2(a, b) == IF b > a THEN b ELSE a
Min2(a, b) == IF b < a THEN b ELSE a

\* Fixed point: FMul(a, b) is floor(a * b / Scale), computed in halves so
\* that no intermediate product leaves 32 bits.
K == 100 * 100
Scale == K * K

FMul(a, b) ==
    LET ah == a \div K
        al == a % K
        bh == b \div K
        bl == b % K
    IN  ah * bh + (ah * bl + al * bh + (al * bl) \div K) \div K

\* base ** n for a fixed-point base and an int n >= 0 (x ** 0 is 1), by
\* repeated squaring.
RECURSIVE FPow(_, _)
FPow(base, n) ==
    IF n <= 0 THEN Scale
    ELSE LET half == FPow(base, n \div 2)
             square == FMul(half, half)
         IN  IF n % 2 = 1 THEN FMul(square, base) ELSE square

\* ------------------------------------------------------------------------
\* Disk, HDD, SSD
\* ------------------------------------------------------------------------

HoursPerYear == 365 * 24
SecondsPerHour == 60 * 60

\* Disk.__init__ that forces afr into [0, 1) and cost to be >= 0.
DiskClamped(id, name, capacity, speed, afr, cost, replacement_time) ==
    [kind |-> "Disk", id |-> id, name |-> name, capacity |-> capacity,
     speed |-> speed,
     afr |-> IF afr < 0 THEN 0 ELSE IF afr >= Scale THEN Scale - 1 ELSE afr,
     cost |-> IF cost.v < 0 THEN [cost EXCEPT !.v = 0] ELSE cost,
     replacement_time |-> replacement_time]

\* Disk.__init__ stores its six arguments; id is the object's identity.
Disk(id, name, capacity, speed, afr, cost, replacement_time) ==
    [kind |-> "Disk", id |-> id, name |-> name, capacity |-> capacity,
     speed |-> speed, afr |-> afr, cost |-> cost,
     replacement_time |-> replacement_time]

\* HDD.__init__ / SSD.__init__: the defaults differ in speed and afr.
HDD(id, name, capacity, speed, afr, cost, replacement_time) ==
    Disk(id, name, capacity, speed, afr, cost, replacement_time)

SSD(id, name, capacity, speed, afr, cost, replacement_time) ==
    Disk(id, name, capacity, speed, afr, cost, replacement_time)

HDD_speed == F(100)
SSD_speed == F(300)
HDD_afr == 12000000
SSD_afr == 1000000
Default_cost == I(10000)
Default_replacement_time == 72

\* Mirror(disks) and DiskArray(disks): an ordered list of members.
Mirror(disks) == [kind |-> "Mirror", disks |-> disks]
DiskArray(disks) == [kind |-> "Stripe", disks |-> disks]

\* ------------------------------------------------------------------------
\* Attributes of Disk, DiskArray (a stripe) and Mirror, dispatched on the
\* object's class as Python does.  Mirror inherits from DiskArray whatever
\* it does not override.
\* ------------------------------------------------------------------------

RECURSIVE cost(_), capacity(_), hourly_failure(_), read_time(_),
          write_time(_), read_throughput(_), write_throughput(_),
          annual_failure(_), annual_cost(_)

cost(x) ==
    IF x.kind = "Disk" THEN x.cost
    ELSE PySum([i \in 1..Len(x.disks) |-> cost(x.disks[i])])

capacity(x) ==
    CASE x.kind = "Disk" -> x.capacity
      [] x.kind = "Mirror" ->
            PyMin([i \in 1..Len(x.disks) |-> capacity(x.disks[i])])
      [] OTHER -> PySum([i \in 1..Len(x.disks) |-> capacity(x.disks[i])])

RECURSIVE SurviveAll(_, _)
\* p = 1; for disk in disks: p = p * (1 - probs[disk])
SurviveAll(probs, i) ==
    IF i = 0 THEN Scale ELSE FMul(SurviveAll(probs, i - 1), Scale - probs[i])

hourly_failure(x) ==
    IF x.kind = "Disk" THEN x.afr \div HoursPerYear
    ELSE LET hf == [i \in 1..Len(x.disks) |-> hourly_failure(x.disks[i])]
         IN  Scale - SurviveAll(hf, Len(hf))

read_time(x) ==
    IF x.kind = "Disk" THEN (x.capacity.v \div x.speed.v) \div SecondsPerHour
    ELSE MaxInt([i \in 1..Len(x.disks) |-> read_time(x.disks[i])])
            \div Len(x.disks)

write_time(x) ==
    CASE x.kind = "Disk" ->
            (x.capacity.v \div x.speed.v) \div SecondsPerHour
      [] x.kind = "Mirror" ->
            MaxInt([i \in 1..Len(x.disks) |-> write_time(x.disks[i])])
      [] OTHER ->
            MaxInt([i \in 1..Len(x.disks) |-> write_time(x.disks[i])])
                \div Len(x.disks)

read_throughput(x) ==
    IF x.kind = "Disk" THEN x.speed
    ELSE NumMulInt(
            PyMin([i \in 1..Len(x.disks) |-> read_throughput(x.disks[i])]),
            Len(x.disks))

write_throughput(x) ==
    CASE x.kind = "Disk" -> x.speed
      [] x.kind = "Mirror" ->
            PyMin([i \in 1..Len(x.disks) |-> write_throughput(x.disks[i])])
      [] OTHER ->
            NumMulInt(
              PyMin([i \in 1..Len(x.disks) |-> write_throughput(x.disks[i])]),
              Len(x.disks))

\* DiskArray.rebuild_time, which Mirror inherits.
rebuild_time(x) ==
    LET write == MaxInt([i \in 1..Len(x.disks) |-> write_time(x.disks[i])])
        read == MaxInt([i \in 1..Len(x.disks) |-> read_time(x.disks[i])])
    IN  Max2(write, read)

\* Mirror.replacement_time, over members that are disks.
replacement_time(x) ==
    IF x.kind = "Disk" THEN x.replacement_time
    ELSE MaxInt([i \in 1..Len(x.disks) |-> x.disks[i].replacement_time])

rebuilds_per_year(x) ==
    SumInt([i \in 1..Len(x.disks) |-> annual_failure(x.disks[i])])

\* Mirror.rebuild_failure with len(self._disks) for the exponent.
Mirror_rebuild_failure_every_member(x) ==
    LET p_each_disk_survives ==
            FPow(Scale - hourly_failure(x),
                 rebuild_time(x) + replacement_time(x))
    IN  FPow(Scale - p_each_disk_survives, Len(x.disks))

\* Mirror.rebuild_failure as one minus a power of the survival probability.
Mirror_rebuild_failure_any_survivor(x) ==
    LET p_each_disk_survives ==
            FPow(Scale - hourly_failure(x),
                 rebuild_time(x) + replacement_time(x))
    IN  Scale - FPow(p_each_disk_survives, Len(x.disks) - 1)

\* Mirror.rebuild_failure
Mirror_rebuild_failure(x) ==
    LET p_each_disk_survives ==
            FPow(Scale - hourly_failure(x),
                 rebuild_time(x) + replacement_time(x))
    IN  FPow(Scale - p_each_disk_survives, Len(x.disks) - 1)

annual_failure(x) ==
    CASE x.kind = "Disk" -> x.afr
      [] x.kind = "Mirror" ->
            FMul(Mirror_rebuild_failure(x), rebuilds_per_year(x))
      [] OTHER ->
            LET af == [i \in 1..Len(x.disks) |-> annual_failure(x.disks[i])]
            IN  Scale - SurviveAll(af, Len(af))

annual_cost(x) ==
    IF x.kind = "Disk" THEN FMul(annual_failure(x), x.cost.v)
    ELSE SumInt([i \in 1..Len(x.disks) |-> annual_cost(x.disks[i])])

\* tco, with the module global MISSION_LENGTH as it stands at the call.
tco(x, mission_length) == annual_cost(x) * mission_length + cost(x).v

\* mission_loss: 1 - (1 - annual_failure) ** MISSION_LENGTH
mission_loss(x, mission_length) ==
    Scale - FPow(Scale - annual_failure(x), mission_length)

\* rebuild_failure: 1 for a Disk, Mirror's own, the worst member's for a
\* Stripe.
RECURSIVE rebuild_failure(_)
rebuild_failure(x) ==
    CASE x.kind = "Disk" -> Scale
      [] x.kind = "Mirror" -> Mirror_rebuild_failure(x)
      [] OTHER -> MaxInt([i \in 1..Len(x.disks) |-> rebuild_failure(x.disks[i])])

\* ------------------------------------------------------------------------
\* Bounds of the model and the disks its inputs are drawn from
\* ------------------------------------------------------------------------

\* The interpreter's recursion limit (sys.getrecursionlimit(), 1000 in
\* CPython), scaled down: deeper than every search over disks that cost
\* something, within the budgets below.
RecursionLimit == 8
\* Longest catalog, longest selection handed to the assembler directly,
\* largest count handed to generate_partitions.
MaxCatalog == 2
MaxSelection == 3
MaxCount == 10
\* The most disks in a Mirror of the attribute runs.
MaxMembers == 3

\* Two identical 4 TB disks (two objects), the 8 TB disk of
\* raid_optimize.py, an SSD priced with a float, and a spare that costs
\* nothing and whose capacity is given as an int.
D1 == HDD(1, "WD4TB", F(4000000), HDD_speed, 6000000, I(17000),
          Default_replacement_time)
D2 == HDD(2, "WD4TB", F(4000000), HDD_speed, 6000000, I(17000),
          Default_replacement_time)
D3 == HDD(3, "WD8TB", F(8000000), HDD_speed, 6000000, I(30500), 96)
D4 == SSD(4, "SSD1TB", F(1000000), SSD_speed, SSD_afr, F(19999), 24)
D5 == HDD(5, "spare", I(2000000), HDD_speed, HDD_afr, I(0),
          Default_replacement_time)
DiskPool == {D1, D2, D3, D4, D5}

SeqsUpTo(S, n) == UNION {[1..k -> S] : k \in 0..n}

\* ------------------------------------------------------------------------
\* Results of a call: the value returned, or the exception raised
\* ------------------------------------------------------------------------

Return(val) == [raised |-> "", val |-> val]
Raise(exc, val) == [raised |-> exc, val |-> val]

\* ------------------------------------------------------------------------
\* count_sames, generate_partitions
\* ------------------------------------------------------------------------

RECURSIVE CountEqual(_, _)
CountEqual(lst, first) ==
    IF lst = << >> THEN 0
    ELSE (IF Head(lst) = first THEN 1 ELSE 0) + CountEqual(Tail(lst), first)

\* count_sames with the return inside the loop: the first element only.
count_sames_first_only(lst) == IF lst = << >> THEN 0 ELSE 1

count_sames(lst) == IF lst = << >> THEN 0 ELSE CountEqual(lst, lst[1])

\* Statement order: first is evaluated in full before rest is.
AndThen(first, rest) == IF first = first THEN rest ELSE rest

RECURSIVE _generate_partitions(_, _, _, _, _), PartitionLoop(_, _, _, _, _),
          PartitionLoopUnbounded(_, _, _, _, _)

\* PartitionLoop with the recursive call's maxlen left at count - i instead
\* of i: group sizes are no longer non-increasing.
PartitionLoopUnbounded(item, count, i, chosen, result) ==
    IF i <= 0 THEN result
    ELSE LET after == _generate_partitions(item, count - i, count - i,
                         Append(chosen, [k \in 1..i |-> item]), result)
         IN  AndThen(after,
                PartitionLoopUnbounded(item, count, i - 1, chosen, after))

\* for i in range(min(count, maxlen), 0, -1), from i on
PartitionLoop(item, count, i, chosen, result) ==
    IF i <= 0 THEN result
    ELSE LET after == _generate_partitions(item, count - i, i,
                         Append(chosen, [k \in 1..i |-> item]), result)
         IN  AndThen(after,
                     PartitionLoop(item, count, i - 1, chosen, after))

_generate_partitions(item, count, maxlen, chosen, result) ==
    IF count = 0 THEN Append(result, chosen)
    ELSE PartitionLoop(item, count, Min2(count, maxlen), chosen, result)

generate_partitions(item, count) ==
    _generate_partitions(item, count, count, << >>, << >>)

\* ------------------------------------------------------------------------
\* _generate_disk_selections
\* ------------------------------------------------------------------------

RECURSIVE _generate_disk_selections(_, _, _, _, _, _, _, _),
          SelectionLoop(_, _, _, _, _, _, _, _, _),
          SelectionLoopUnsliced(_, _, _, _, _, _, _, _, _)

\* SelectionLoop that hands all of options, not options[idx:], to the call.
SelectionLoopUnsliced(options, idx, chosen, results, min_capacity, max_cost, running_cost, running_capacity, depth) ==
    IF idx > Len(options) THEN Return(results)
    ELSE LET option == options[idx]
             r == _generate_disk_selections(options,
                     Append(chosen, option), results, min_capacity, max_cost,
                     running_cost + option.cost.v,
                     running_capacity + option.capacity.v, depth + 1)
         IN  IF r.raised # "" THEN r
             ELSE SelectionLoopUnsliced(options, idx + 1, chosen, r.val,
                     min_capacity, max_cost, running_cost, running_capacity,
                     depth)

\* for idx, option in enumerate(options), from idx on (idx counts from 1).
\* An exception raised by a call ends the loop and the caller.
SelectionLoop(options, idx, chosen, results, min_capacity, max_cost, running_cost, running_capacity, depth) ==
    IF idx > Len(options) THEN Return(results)
    ELSE LET option == options[idx]
             r == _generate_disk_selections(
                     SubSeq(options, idx, Len(options)),
                     Append(chosen, option), results, min_capacity, max_cost,
                     running_cost + option.cost.v,
                     running_capacity + option.capacity.v, depth + 1)
         IN  IF r.raised # "" THEN r
             ELSE SelectionLoop(options, idx + 1, chosen, r.val, min_capacity,
                                max_cost, running_cost, running_capacity,
                                depth)

\* _generate_disk_selections that appends chosen only when the budget
\* lets no option be added to it.
_generate_disk_selections_spent(options, chosen, results, min_capacity, max_cost, running_cost, running_capacity, depth) ==
    IF depth > RecursionLimit THEN Raise("RecursionError", results)
    ELSE IF running_cost > max_cost THEN Return(results)
    ELSE SelectionLoop(options, 1, chosen,
            IF /\ running_capacity > min_capacity
               /\ \A i \in 1..Len(options) :
                    running_cost + options[i].cost.v > max_cost
                THEN Append(results, chosen) ELSE results,
            min_capacity, max_cost, running_cost, running_capacity, depth)

\* depth is the number of frames of this function on the stack: the
\* interpreter raises RecursionError on the call that passes its limit.
_generate_disk_selections(options, chosen, results, min_capacity, max_cost, running_cost, running_capacity, depth) ==
    IF depth > RecursionLimit THEN Raise("RecursionError", results)
    ELSE IF running_cost > max_cost THEN Return(results)
    ELSE SelectionLoop(options, 1, chosen,
            IF running_capacity > min_capacity
                THEN Append(results, chosen) ELSE results,
            min_capacity, max_cost, running_cost, running_capacity, depth)

\* ------------------------------------------------------------------------
\* _generate_disk_configurations
\* ------------------------------------------------------------------------

\* Viable with the write throughput tested against min_read.
ViableWriteAgainstMinRead(ary, min_read, min_write, min_capacity, max_afr) ==
    IF ~(capacity(ary).v >= min_capacity /\ annual_failure(ary) <= max_afr)
        THEN "no"
    ELSE IF ary.disks = << >> THEN "ValueError"
    ELSE IF read_throughput(ary).v >= min_read
            /\ write_throughput(ary).v >= min_read THEN "yes"
    ELSE "no"

\* The test of lines 484-487, left to right with Python's short-circuit
\* `and`: "yes", "no", or "ValueError" when min() meets a stripe without
\* members.
Viable(ary, min_read, min_write, min_capacity, max_afr) ==
    IF ~(capacity(ary).v >= min_capacity /\ annual_failure(ary) <= max_afr)
        THEN "no"
    ELSE IF ary.disks = << >> THEN "ValueError"
    ELSE IF read_throughput(ary).v >= min_read
            /\ write_throughput(ary).v >= min_write THEN "yes"
    ELSE "no"

RECURSIVE _generate_disk_configurations(_, _, _, _, _, _, _),
          ConfigurationLoop(_, _, _, _, _, _, _, _, _)

\* ConfigurationLoop that returns after the first partition.
ConfigurationLoopFirstOnly(partitions, i, remainder, chosen, configs, min_read, min_write, min_capacity, max_afr) ==
    IF i > Len(partitions) THEN Return(configs)
    ELSE _generate_disk_configurations(remainder, chosen \o partitions[i],
            configs, min_read, min_write, min_capacity, max_afr)

\* for partition in partitions, from i on
ConfigurationLoop(partitions, i, remainder, chosen, configs, min_read, min_write, min_capacity, max_afr) ==
    IF i > Len(partitions) THEN Return(configs)
    ELSE LET r == _generate_disk_configurations(remainder,
                     chosen \o partitions[i], configs, min_read, min_write,
                     min_capacity, max_afr)
         IN  IF r.raised # "" THEN r
             ELSE ConfigurationLoop(partitions, i + 1, remainder, chosen,
                     r.val, min_read, min_write, min_capacity, max_afr)

_generate_disk_configurations(disks, chosen, configs, min_read, min_write, min_capacity, max_afr) ==
    IF disks = << >>
    THEN LET mirrors == [i \in 1..Len(chosen) |-> Mirror(chosen[i])]
             ary == DiskArray(mirrors)
             ok == Viable(ary, min_read, min_write, min_capacity, max_afr)
         IN  CASE ok = "yes" -> Return(Append(configs, ary))
               [] ok = "no" -> Return(configs)
               [] OTHER -> Raise(ok, configs)
    ELSE LET same == count_sames(disks)
             remainder == SubSeq(disks, same + 1, Len(disks))
         IN  ConfigurationLoop(generate_partitions(disks[1], same), 1,
                 remainder, chosen, configs, min_read, min_write,
                 min_capacity, max_afr)

\* ------------------------------------------------------------------------
\* print_notable_configs
\* ------------------------------------------------------------------------

\* notable_attributes, in the dict's order: label, attribute, test.
notable_attributes ==
    << <<"Cheapest", "cost", "__lt__">>,
       <<"Most Reliable", "annual_failure", "__lt__">>,
       <<"Fastest Write", "write_throughput", "__gt__">>,
       <<"Fastest Read", "read_throughput", "__gt__">>,
       <<"Biggest", "capacity", "__gt__">>,
       <<"Lowest TCO", "tco", "__lt__">> >>

\* getattr(config, name): annual_failure and tco of an array are floats.
GetAttr(config, name, mission_length) ==
    CASE name = "cost" -> cost(config)
      [] name = "annual_failure" -> F(annual_failure(config))
      [] name = "write_throughput" -> write_throughput(config)
      [] name = "read_throughput" -> read_throughput(config)
      [] name = "capacity" -> capacity(config)
      [] OTHER -> F(tco(config, mission_length))

\* bool(getattr(a, test)(b)).  int.__lt__ and int.__gt__ return
\* NotImplemented for a float argument, and NotImplemented is true in a
\* condition (CPython up to 3.13).
DunderTest(a, test, b) ==
    IF ~a.f /\ b.f THEN TRUE
    ELSE IF test = "__lt__" THEN a.v < b.v ELSE a.v > b.v

\* The loop of lines 567-570 for one attribute, over configs[lo..hi] in
\* order: the index in configs of notable[att] afterwards, given that it is
\* best before.  (The range is halved to keep the evaluation shallow.)
RECURSIVE NotableOver(_, _, _, _, _, _)
NotableOver(configs, att, lo, hi, best, mission_length) ==
    IF lo > hi THEN best
    ELSE IF lo = hi
        THEN IF DunderTest(GetAttr(configs[lo], att[2], mission_length),
                           att[3],
                           GetAttr(configs[best], att[2], mission_length))
             THEN lo ELSE best
    ELSE LET mid == (lo + hi) \div 2
             first == NotableOver(configs, att, lo, mid, best, mission_length)
         IN  AndThen(first, NotableOver(configs, att, mid + 1, hi, first,
                                        mission_length))

\* print_notable_configs: what it prints ("No configs." or the labels in
\* order) and notable, label -> index of the config in configs.
\* mission_length is << >> while the global MISSION_LENGTH is not set.
print_notable_configs(configs, mission_length) ==
    IF configs = << >> THEN Return([out |-> <<"No configs.">>, notable |-> << >>])
    ELSE IF mission_length = << >>
        THEN Raise("NameError", [out |-> << >>, notable |-> << >>])
    ELSE Return(
        [out |-> [k \in 1..Len(notable_attributes) |-> notable_attributes[k][1]],
         notable |-> [k \in 1..Len(notable_attributes) |->
                        NotableOver(configs, notable_attributes[k], 1,
                                    Len(configs), 1, mission_length[1])]])

\* ------------------------------------------------------------------------
\* The attributes of an array, read by name
\* ------------------------------------------------------------------------

ArrayAttributes ==
    {"cost", "capacity", "hourly_failure", "read_time", "write_time",
     "read_throughput", "write_throughput", "rebuild_time",
     "rebuilds_per_year", "annual_failure", "rebuild_failure",
     "annual_cost", "tco", "mission_loss"}

\* The attributes whose property body reads the global MISSION_LENGTH.
ReadsMissionLength == {"tco", "mission_loss"}

\* The property bodies that read nothing but the array.
PlainAttribute(x, name) ==
    CASE name = "cost" -> cost(x)
      [] name = "capacity" -> capacity(x)
      [] name = "hourly_failure" -> F(hourly_failure(x))
      [] name = "read_time" -> F(read_time(x))
      [] name = "write_time" -> F(write_time(x))
      [] name = "read_throughput" -> read_throughput(x)
      [] name = "write_throughput" -> write_throughput(x)
      [] name = "rebuild_time" -> F(rebuild_time(x))
      [] name = "rebuilds_per_year" -> F(rebuilds_per_year(x))
      [] name = "annual_failure" -> F(annual_failure(x))
      [] name = "rebuild_failure" -> F(rebuild_failure(x))
      [] OTHER -> F(annual_cost(x))

\* getattr with annual_cost taken over the mission, as tco takes it.
getattr_annual_cost_over_mission(x, name, mission_length) ==
    IF name \in ReadsMissionLength \/ name = "annual_cost"
    THEN IF mission_length = << >> THEN Raise("NameError", << >>)
         ELSE CASE name = "tco" -> Return(F(tco(x, mission_length[1])))
                [] name = "mission_loss" ->
                        Return(F(mission_loss(x, mission_length[1])))
                [] OTHER -> Return(F(annual_cost(x) * mission_length[1]))
    ELSE Return(PlainAttribute(x, name))

\* getattr(x, name) for an array x, while the global MISSION_LENGTH is
\* mission_length (<< >>: not set, the name lookup raises NameError).
getattr(x, name, mission_length) ==
    IF name \in ReadsMissionLength
    THEN IF mission_length = << >> THEN Raise("NameError", << >>)
         ELSE IF name = "tco" THEN Return(F(tco(x, mission_length[1])))
         ELSE Return(F(mission_loss(x, mission_length[1])))
    ELSE Return(PlainAttribute(x, name))

\* ------------------------------------------------------------------------
\* Accessors of a Disk that can raise
\* ------------------------------------------------------------------------

\* Disk.read_time and Disk.write_time: capacity / speed / (60 * 60).
Disk_read_time(d) ==
    IF d.speed.v = 0 THEN Raise("ZeroDivisionError", << >>)
    ELSE Return(read_time(d))

Disk_write_time(d) ==
    IF d.speed.v = 0 THEN Raise("ZeroDivisionError", << >>)
    ELSE Return(write_time(d))

\* Disk.rebuild_time reads self._read_time and self._write_time, which no
\* Disk has: __init__ sets neither and read_time is a property of the class.
Disk_rebuild_time(d) == Raise("AttributeError", << >>)

\* ------------------------------------------------------------------------
\* State
\* ------------------------------------------------------------------------

VARIABLES
    pc,                     \* where the run stands
    args,                   \* the arguments of Disk(...)
    disk,                   \* the Disk or array constructed, << >> before
    called,                 \* the accessor or function called last
    ret,                    \* what the last call returned or raised
    item, count,            \* the arguments of generate_partitions
    selection,              \* the disks handed to _generate_disk_configurations
    options, disks,         \* the arguments of generate_disk_configurations
    min_capacity, min_read_throughput, min_write_throughput, max_afr,
    max_cost,
    other_cost,             \* the budget of a second enumeration
    other,                  \* what the second call of a pair returned
    selections, next,       \* the loop over selections (lines 517-519)
    configs,                \* the accumulator of viable configurations
    MISSION_LENGTH,         \* the module global: << >> while not set
    printed                 \* what print_notable_configs did

vars == <<pc, args, disk, called, ret, item, count, selection, options, disks,
          min_capacity, min_read_throughput, min_write_throughput, max_afr,
          max_cost, other_cost, other, selections, next, configs,
          MISSION_LENGTH, printed>>

None == << >>

diskVars == <<args, disk>>
partitionVars == <<item, count>>
searchVars == <<selection, options, disks, min_capacity, min_read_throughput,
                min_write_throughput, max_afr, max_cost, other_cost, other,
                selections, next, configs, MISSION_LENGTH, printed>>

NoDisk == args = None /\ disk = None
NoPartition == item = None /\ count = 0
NoSearch ==
    /\ selection = None /\ options = None /\ disks = None
    /\ min_capacity = 0
    /\ min_read_throughput = 0 /\ min_write_throughput = 0 /\ max_afr = 0
    /\ max_cost = 0 /\ other_cost = 0 /\ other = None /\ selections = None
    /\ next = 0 /\ configs = None /\ MISSION_LENGTH = None /\ printed = None

\* ------------------------------------------------------------------------
\* SpecDisk: a Disk is constructed, then one of its time accessors is read
\* ------------------------------------------------------------------------

DiskArgs ==
    [capacity : {F(-3600), F(0), F(360000), F(4000000), I(8000000)},
     speed : {F(-100), F(0), F(100), F(300)},
     afr : {-1, 0, 6000000, Scale, 2 * Scale},
     cost : {I(-1), I(0), I(17000), F(19999)},
     replacement_time : {-1, 0, 72}]

InitDisk ==
    /\ pc = "new" /\ args \in DiskArgs /\ disk = None
    /\ called = "" /\ ret = None
    /\ NoPartition /\ NoSearch

\* d = Disk(name, capacity, speed, afr, cost, replacement_time)
DiskInit ==
    /\ pc = "new"
    /\ disk' = Disk(1, "disk", args.capacity, args.speed, args.afr,
                    args.cost, args.replacement_time)
    /\ pc' = "built"
    /\ UNCHANGED <<args, called, ret, partitionVars, searchVars>>

\* d.read_time
ReadTime ==
    /\ pc = "built"
    /\ called' = "read_time" /\ ret' = Disk_read_time(disk)
    /\ pc' = "read"
    /\ UNCHANGED <<diskVars, partitionVars, searchVars>>

\* d.write_time
WriteTime ==
    /\ pc = "built"
    /\ called' = "write_time" /\ ret' = Disk_write_time(disk)
    /\ pc' = "read"
    /\ UNCHANGED <<diskVars, partitionVars, searchVars>>

\* d.rebuild_time
RebuildTime ==
    /\ pc = "built"
    /\ called' = "rebuild_time" /\ ret' = Disk_rebuild_time(disk)
    /\ pc' = "read"
    /\ UNCHANGED <<diskVars, partitionVars, searchVars>>

NextDisk == DiskInit \/ ReadTime \/ WriteTime \/ RebuildTime

SpecDisk == InitDisk /\ [][NextDisk]_vars

\* ------------------------------------------------------------------------
\* SpecPartition: generate_partitions(item, count)
\* ------------------------------------------------------------------------

InitPartition ==
    /\ pc = "call" /\ item \in DiskPool /\ count \in 0..MaxCount
    /\ called = "" /\ ret = None
    /\ NoDisk /\ NoSearch

Partition ==
    /\ pc = "call"
    /\ called' = "generate_partitions"
    /\ ret' = Return(generate_partitions(item, count))
    /\ pc' = "done"
    /\ UNCHANGED <<diskVars, partitionVars, searchVars>>

NextPartition == Partition

SpecPartition == InitPartition /\ [][NextPartition]_vars

\* ------------------------------------------------------------------------
\* SpecAssemble: _generate_disk_configurations on one selection
\* ------------------------------------------------------------------------

MinCapacityChoices == {0, 3000000, 4000000, 8000000}
MaxAfrChoices == {0, 13000, 6000000, Scale}
MinReadChoices == {0, 200, 300}
MinWriteChoices == {0, 200}

InitAssemble ==
    /\ pc = "call" /\ called = "" /\ ret = None
    /\ selection \in SeqsUpTo(DiskPool, MaxSelection)
    /\ min_capacity \in MinCapacityChoices
    /\ max_afr \in MaxAfrChoices
    /\ min_read_throughput \in MinReadChoices
    /\ min_write_throughput \in MinWriteChoices
    /\ options = None /\ disks = None /\ max_cost = 0 /\ other_cost = 0
    /\ other = None /\ selections = None /\ next = 0 /\ configs = None
    /\ MISSION_LENGTH = None /\ printed = None
    /\ NoDisk /\ NoPartition

Assemble ==
    /\ pc = "call"
    /\ called' = "_generate_disk_configurations"
    /\ ret' = _generate_disk_configurations(selection, << >>, << >>,
                 min_read_throughput, min_write_throughput, min_capacity,
                 max_afr)
    /\ pc' = "done"
    /\ UNCHANGED <<diskVars, partitionVars, searchVars>>

NextAssemble == Assemble

SpecAssemble == InitAssemble /\ [][NextAssemble]_vars

\* ------------------------------------------------------------------------
\* SpecSelect: _generate_disk_selections, under a budget and then under
\* another that is at least as large
\* ------------------------------------------------------------------------

MaxCostChoices == {-1, 0, 17000, 34000, 50000, 100000}
Catalogs == SeqsUpTo(DiskPool, MaxCatalog)

InitSelect ==
    /\ pc = "call" /\ called = "" /\ ret = None /\ other = None
    /\ options \in Catalogs
    /\ min_capacity \in MinCapacityChoices
    /\ max_cost \in MaxCostChoices
    /\ other_cost \in {c \in MaxCostChoices : c >= max_cost}
    /\ selection = None /\ disks = None /\ min_read_throughput = 0
    /\ min_write_throughput = 0 /\ max_afr = 0 /\ selections = None
    /\ next = 0 /\ configs = None /\ MISSION_LENGTH = None /\ printed = None
    /\ NoDisk /\ NoPartition

Enumerate ==
    /\ pc = "call"
    /\ called' = "_generate_disk_selections"
    /\ ret' = _generate_disk_selections(options, << >>, << >>, min_capacity,
                 max_cost, 0, 0, 1)
    /\ pc' = "first"
    /\ UNCHANGED <<diskVars, partitionVars, searchVars>>

EnumerateOther ==
    /\ pc = "first"
    /\ other' = _generate_disk_selections(options, << >>, << >>,
                   min_capacity, other_cost, 0, 0, 1)
    /\ pc' = "second"
    /\ UNCHANGED <<diskVars, partitionVars, called, ret, selection, options,
                   disks, min_capacity, min_read_throughput,
                   min_write_throughput, max_afr, max_cost, other_cost,
                   selections, next, configs, MISSION_LENGTH, printed>>

NextSelect == Enumerate \/ EnumerateOther

SpecSelect == InitSelect /\ [][NextSelect]_vars

\* ------------------------------------------------------------------------
\* Spec: generate_disk_configurations, then print_notable_configs on what
\* it returned, as raid_optimize.py and raid_arrange.py run them
\* ------------------------------------------------------------------------

\* raid_arrange.py hands one arrangement as disks=[ARRANGEMENT].
Arrangements == {None, <<<<D1, D1, D3>>>>}

\* DISK_CHOICES: none, the two identical disks of Scenario A, an SSD priced
\* with cents beside an HDD, a disk that costs nothing, alone and not, and a
\* catalog that lists one disk object twice.
DiskChoices ==
    {<< >>, <<D1, D2>>, <<D4, D3>>, <<D3>>, <<D5>>, <<D5, D1>>, <<D3, D1, D3>>}

BudgetChoices == {-1, 40000, 80000, 100000}
AfrChoices == {-1, 13000, Scale}

Init ==
    /\ pc = "call" /\ called = "" /\ ret = None
    /\ options \in DiskChoices
    /\ disks \in Arrangements
    /\ min_capacity \in {0, 3000000}
    /\ max_cost \in BudgetChoices
    /\ max_afr \in AfrChoices
    /\ min_read_throughput \in {0, 300}
    /\ min_write_throughput \in {0, 200}
    /\ MISSION_LENGTH \in {None, <<3>>}
    /\ selection = None /\ other_cost = 0 /\ other = None
    /\ selections = None /\ next = 0 /\ configs = None /\ printed = << >>
    /\ NoDisk /\ NoPartition

constraintVars == <<options, disks, min_capacity, min_read_throughput,
                    min_write_throughput, max_afr, max_cost, other_cost,
                    other, MISSION_LENGTH>>

\* Lines 510-516: the selections are enumerated, or taken from disks.
Select ==
    /\ pc = "call"
    /\ called' = "generate_disk_configurations"
    /\ IF disks = << >>
       THEN LET r == _generate_disk_selections(options, << >>, << >>,
                         min_capacity, max_cost, 0, 0, 1)
            IN  IF r.raised # ""
                THEN /\ pc' = "raised" /\ ret' = r
                     /\ UNCHANGED <<selections, next, configs, printed>>
                ELSE /\ selections' = r.val
                     /\ printed' = Append(printed,
                                     <<"combinations of disks generated.",
                                       Len(r.val)>>)
                     /\ configs' = << >> /\ next' = 1 /\ pc' = "loop"
                     /\ ret' = ret
       ELSE /\ selections' = disks
            /\ configs' = << >> /\ next' = 1 /\ pc' = "loop"
            /\ UNCHANGED <<ret, printed>>
    /\ UNCHANGED <<diskVars, partitionVars, selection, constraintVars>>

\* Lines 517-519: one pass of the loop over selections.
AssembleNext ==
    /\ pc = "loop" /\ next <= Len(selections)
    /\ selection' = selections[next]
    /\ LET r == _generate_disk_configurations(selections[next], << >>,
                   configs, min_read_throughput, min_write_throughput,
                   min_capacity, max_afr)
       IN  IF r.raised # ""
           THEN /\ pc' = "raised" /\ ret' = r
                /\ UNCHANGED <<next, configs>>
           ELSE /\ configs' = r.val /\ next' = next + 1
                /\ UNCHANGED <<pc, ret>>
    /\ UNCHANGED <<diskVars, partitionVars, called, selections, printed,
                   constraintVars>>

\* Lines 521-523: the loop is over, configs is returned.
ReturnConfigs ==
    /\ pc = "loop" /\ next > Len(selections)
    /\ printed' = Append(printed,
                    <<"viable configurations generated.", Len(configs)>>)
    /\ ret' = Return(configs)
    /\ pc' = "returned"
    /\ UNCHANGED <<diskVars, partitionVars, called, selection, selections,
                   next, configs, constraintVars>>

\* print_notable_configs(configs)
PrintNotable ==
    /\ pc = "returned"
    /\ called' = "print_notable_configs"
    /\ LET r == print_notable_configs(configs, MISSION_LENGTH)
       IN  /\ ret' = r
           /\ printed' = printed \o r.val.out
           /\ pc' = IF r.raised # "" THEN "raised" ELSE "printed"
    /\ UNCHANGED <<diskVars, partitionVars, selection, selections, next,
                   configs, constraintVars>>

Next == Select \/ AssembleNext \/ ReturnConfigs \/ PrintNotable

Spec == Init /\ [][Next]_vars

\* ------------------------------------------------------------------------
\* SpecAttributes: an array is built as raid_evaluate.py builds one, an
\* attribute of it is read, MISSION_LENGTH may be assigned, and the same
\* attribute is read again
\* ------------------------------------------------------------------------

NonEmptySeqsUpTo(S, n) == SeqsUpTo(S, n) \ {<< >>}

Mirrors == {Mirror(ds) : ds \in NonEmptySeqsUpTo(DiskPool, MaxMembers)}

\* Stripes of one or two Mirrors, and Stripes of plain disks.
Stripes ==
    LET ms == {Mirror(ds) : ds \in NonEmptySeqsUpTo({D1, D4}, MaxMembers)}
    IN  {DiskArray(<<a>>) : a \in ms}
            \cup {DiskArray(<<a, b>>) : a \in ms, b \in ms}
            \cup {DiskArray(ds) : ds \in NonEmptySeqsUpTo(DiskPool, 2)}

MissionLengths == {<<1>>, <<3>>}

InitAttributes ==
    /\ pc = "built" /\ disk \in Mirrors \cup Stripes /\ args = None
    /\ MISSION_LENGTH \in {None} \cup MissionLengths
    /\ called = "" /\ ret = None /\ other = None /\ next = 0
    /\ selection = None /\ options = None /\ disks = None
    /\ min_capacity = 0 /\ min_read_throughput = 0
    /\ min_write_throughput = 0 /\ max_afr = 0 /\ max_cost = 0
    /\ other_cost = 0 /\ selections = None /\ configs = None
    /\ printed = None
    /\ NoPartition

attributeFrame == <<args, disk, partitionVars, selection, options, disks,
                    min_capacity, min_read_throughput, min_write_throughput,
                    max_afr, max_cost, other_cost, selections, configs,
                    printed>>

\* getattr(array, name)
GetAttribute ==
    /\ pc = "built"
    /\ \E name \in ArrayAttributes :
        /\ called' = name
        /\ ret' = getattr(disk, name, MISSION_LENGTH)
    /\ pc' = "once"
    /\ UNCHANGED <<attributeFrame, other, next, MISSION_LENGTH>>

\* com.heresjono.raidcalc.MISSION_LENGTH = n
SetMissionLength ==
    /\ pc = "once" /\ next = 0
    /\ \E n \in MissionLengths : MISSION_LENGTH' = n
    /\ next' = next + 1
    /\ UNCHANGED <<attributeFrame, pc, called, ret, other>>

\* getattr(array, name) once more
GetAttributeAgain ==
    /\ pc = "once"
    /\ other' = getattr(disk, called, MISSION_LENGTH)
    /\ pc' = "again"
    /\ UNCHANGED <<attributeFrame, called, ret, next, MISSION_LENGTH>>

NextAttributes == GetAttribute \/ SetMissionLength \/ GetAttributeAgain

SpecAttributes == InitAttributes /\ [][NextAttributes]_vars

\* ------------------------------------------------------------------------
\* Claims about Disk (SpecDisk)
\* ------------------------------------------------------------------------

InRange(d) ==
    /\ d.capacity.v > 0 /\ d.speed.v > 0
    /\ 0 <= d.afr /\ d.afr < Scale
    /\ d.cost.v >= 0 /\ d.replacement_time >= 0

\* C9 (as stated): construction validates its parameters, so that no Disk
\* with an out-of-range field ever exists.
C9_NoDiskOutOfRange == disk # None => InRange(disk)

\* C9 (amended): construction validates nothing.  It succeeds whatever the
\* arguments are and the Disk holds each argument exactly as it was given.
C9_ConstructionStoresArguments ==
    /\ pc = "new" => ENABLED DiskInit
    /\ pc # "new" =>
        /\ disk.capacity = args.capacity
        /\ disk.speed = args.speed
        /\ disk.afr = args.afr
        /\ disk.cost = args.cost
        /\ disk.replacement_time = args.replacement_time

\* C9 witness: a Disk exists whose afr and cost are both out of range.
C9_Witness ==
    /\ pc = "built"
    /\ disk.afr >= Scale /\ disk.cost.v < 0 /\ disk.capacity.v <= 0

\* C10 (as stated): for a Disk with speed > 0 and capacity > 0, read_time
\* and write_time are capacity / speed / 3600 and rebuild_time returns
\* max(read_time, write_time), at least each of them.
C10_RebuildTimeIsMaxOfReadAndWrite ==
    (pc = "read" /\ disk.speed.v > 0 /\ disk.capacity.v > 0) =>
        LET hours == (disk.capacity.v \div disk.speed.v) \div SecondsPerHour
        IN  /\ ret.raised = ""
            /\ called \in {"read_time", "write_time"} => ret.val = hours
            /\ called = "rebuild_time" =>
                /\ ret.val = Max2(Disk_read_time(disk).val,
                                  Disk_write_time(disk).val)
                /\ ret.val >= hours

\* ------------------------------------------------------------------------
\* Claims about generate_partitions (SpecPartition)
\* ------------------------------------------------------------------------

Sizes(partition) == [g \in 1..Len(partition) |-> Len(partition[g])]

\* The number of integer partitions of n into parts of at most m.
RECURSIVE PartitionNumber(_, _)
PartitionNumber(n, m) ==
    IF n = 0 THEN 1
    ELSE IF m = 0 THEN 0
    ELSE PartitionNumber(n, m - 1)
            + (IF n >= m THEN PartitionNumber(n - m, m) ELSE 0)

\* How many groups of the partition have k members.
GroupsOfSize(partition, k) ==
    Cardinality({g \in 1..Len(partition) : Len(partition[g]) = k})

IsPartitionOf(partition, thing, n) ==
    /\ \A g \in 1..Len(partition) :
        /\ Len(partition[g]) > 0
        /\ \A k \in 1..Len(partition[g]) : partition[g][k] = thing
        /\ g > 1 => Len(partition[g]) <= Len(partition[g - 1])
    /\ SumInt(Sizes(partition)) = n

\* C1: generate_partitions(item, n) returns exactly the integer partitions
\* of n: groups of positive, non-increasing sizes that sum to n, no
\* multiset of sizes twice, p(n) of them (so every partition appears), and
\* for n = 4 the list [4], [3,1], [2,2], [2,1,1], [1,1,1,1].
C1_PartitionsExact ==
    pc = "done" =>
        LET result == ret.val
        IN  /\ \A i \in 1..Len(result) : IsPartitionOf(result[i], item, count)
            /\ \A i, j \in 1..Len(result) :
                i < j => \E k \in 1..count :
                    GroupsOfSize(result[i], k) # GroupsOfSize(result[j], k)
            /\ Len(result) = PartitionNumber(count, count)
            /\ count = 0 => result = << << >> >>
            /\ count = 3 => Len(result) = 3
            /\ count = 5 => Len(result) = 7
            /\ count = 4 =>
                [i \in 1..Len(result) |-> Sizes(result[i])]
                    = << <<4>>, <<3, 1>>, <<2, 2>>, <<2, 1, 1>>,
                         <<1, 1, 1, 1>> >>

\* C1 witness: the five partitions of 4 have been returned.
C1_Witness == pc = "done" /\ count = 4 /\ Len(ret.val) = 5


\* ------------------------------------------------------------------------
\* Claims about _generate_disk_configurations (SpecAssemble)
\* ------------------------------------------------------------------------

Assembled == pc = "done" /\ called = "_generate_disk_configurations"

\* The four constraints of the search, as the claim words them.
MeetsConstraints(ary) ==
    /\ read_throughput(ary).v >= min_read_throughput
    /\ write_throughput(ary).v >= min_write_throughput
    /\ capacity(ary).v >= min_capacity
    /\ annual_failure(ary) <= max_afr

\* C2: every configuration in the list _generate_disk_configurations built
\* meets all four constraints: read throughput and write throughput at least
\* the minimums, capacity at least min_capacity, annual failure probability
\* at most max_afr; a candidate that fails one of them is not in the list.
C2_ResultsMeetConstraints ==
    Assembled =>
        \A i \in 1..Len(ret.val) : MeetsConstraints(ret.val[i])

\* Every Stripe the call would build when nothing is rejected.
Candidates ==
    _generate_disk_configurations(selection, << >>, << >>, 0, 0, 0, Scale).val

\* C2 happens: of the candidates of a selection one was kept and one was
\* rejected.
C2_Witness ==
    /\ Assembled /\ ret.raised = ""
    /\ Len(ret.val) >= 1
    /\ \E i \in 1..Len(Candidates) : ~MeetsConstraints(Candidates[i])

Range(seq) == {seq[i] : i \in 1..Len(seq)}

\* Identical disks are next to each other.
Contiguous(seq) ==
    \A i, j, k \in 1..Len(seq) :
        (i < j /\ j < k /\ seq[i] = seq[k]) => seq[j] = seq[i]

Multiplicity(seq, d) == Cardinality({i \in 1..Len(seq) : seq[i] = d})

RECURSIVE ProductOfPartitionNumbers(_, _)
ProductOfPartitionNumbers(seq, ds) ==
    IF ds = {} THEN 1
    ELSE LET d == CHOOSE x \in ds : TRUE
         IN  PartitionNumber(Multiplicity(seq, d), Multiplicity(seq, d))
                * ProductOfPartitionNumbers(seq, ds \ {d})

\* The grouping of a Stripe: for each disk and mirror size, how many of the
\* Stripe's mirrors are that many copies of that disk.
Grouping(ary) ==
    [d \in DiskPool, n \in 1..(MaxSelection + 1) |->
        Cardinality({m \in 1..Len(ary.disks) :
            /\ Len(ary.disks[m].disks) = n
            /\ ary.disks[m].disks[1] = d})]

Homogeneous(mirror) ==
    /\ mirror.kind = "Mirror" /\ mirror.disks # << >>
    /\ \A i \in 1..Len(mirror.disks) : mirror.disks[i] = mirror.disks[1]

\* Every disk of the selection is in exactly one mirror of the Stripe.
UsesEachDiskOnce(ary, seq) ==
    \A d \in DiskPool :
        SumInt([m \in 1..Len(ary.disks) |->
                    Multiplicity(ary.disks[m].disks, d)]) = Multiplicity(seq, d)

RejectNothing ==
    /\ min_read_throughput = 0 /\ min_write_throughput = 0
    /\ min_capacity = 0 /\ max_afr = Scale

Distinct(seq) == \A i, j \in 1..Len(seq) : i # j => seq[i] # seq[j]

NonDecreasing(s) == \A i \in 1..(Len(s) - 1) : s[i] <= s[i + 1]

\* The multisets of catalog entries of at most n disks, each written in
\* catalog order as a sequence of catalog positions.
MultisetsUpTo(n) ==
    UNION {{s \in [1..k -> 1..Len(options)] : NonDecreasing(s)} : k \in 0..n}

Chosen(s) == [i \in 1..Len(s) |-> options[s[i]]]

Feasible(sel, budget) ==
    /\ SumInt([i \in 1..Len(sel) |-> sel[i].cost.v]) <= budget
    /\ SumInt([i \in 1..Len(sel) |-> sel[i].capacity.v]) > min_capacity

FeasibleSelections(budget) ==
    {sel \in {Chosen(s) : s \in MultisetsUpTo(RecursionLimit - 1)} :
        Feasible(sel, budget)}

\* C4: over a catalog of pairwise distinct disks, whenever
\* _generate_disk_selections returns, the list holds every multiset of
\* catalog entries, in catalog order and with repetition, whose total cost
\* is at most max_cost and whose total capacity is strictly greater than
\* min_capacity, each exactly once and nothing else.
C4_SelectionsExactlyOnce ==
    (pc = "first" /\ Distinct(options) /\ ret.raised = "")
    => /\ Range(ret.val) = FeasibleSelections(max_cost)
       /\ Distinct(ret.val)

\* C4 happens: over a catalog of two distinct disks the call returned
\* selections, one of them with a disk repeated and one with both disks.
C4_Witness ==
    /\ pc = "first" /\ Distinct(options) /\ Len(options) = 2
    /\ ret.raised = ""
    /\ \E i, j \in 1..Len(ret.val) :
        /\ Len(ret.val[i]) = 2 /\ ret.val[i][1] = ret.val[i][2]
        /\ Len(ret.val[j]) = 2 /\ ret.val[j][1] # ret.val[j][2]

\* C5: with the other arguments fixed and max_cost <= other_cost, every
\* selection returned under max_cost is returned under other_cost too.
C5_MonotonicInMaxCost ==
    (pc = "second" /\ ret.raised = "")
    => \A i \in 1..Len(ret.val) :
        other.raised = "" /\ ret.val[i] \in Range(other.val)

\* C5 happens: the larger budget returned strictly more than the smaller,
\* and the smaller returned something.
C5_Witness ==
    /\ pc = "second" /\ max_cost < other_cost
    /\ ret.raised = "" /\ other.raised = ""
    /\ Len(ret.val) >= 1 /\ Len(ret.val) < Len(other.val)


\* ------------------------------------------------------------------------
\* Claims about generate_disk_configurations and print_notable_configs (Spec)
\* ------------------------------------------------------------------------

\* Scenario A: the catalog is two identical HDDs of 4e12 bytes, AFR 0.06 and
\* cost 170; min_capacity 3e12, max_cost 1000, max_afr 1, no throughput floor.
ScenarioA ==
    /\ options = <<D1, D2>> /\ disks = None
    /\ min_capacity = 3000000 /\ max_cost = 100000 /\ max_afr = Scale
    /\ min_read_throughput = 0 /\ min_write_throughput = 0

Returned == pc = "returned" /\ called = "generate_disk_configurations"

\* A Stripe of one Mirror of two disks.
SingleMirrorOfTwo(ary) ==
    /\ ary.kind = "Stripe" /\ Len(ary.disks) = 1
    /\ Len(ary.disks[1].disks) = 2

\* C6 as the specification words it: in Scenario A
\* generate_disk_configurations returns exactly one configuration, a Stripe
\* holding a single Mirror of the two disks of the catalog, of capacity 4e12.
C6_ScenarioAExactlyOne ==
    (Returned /\ ScenarioA)
    => /\ Len(ret.val) = 1
       /\ SingleMirrorOfTwo(ret.val[1])
       /\ Range(ret.val[1].disks[1].disks) = {D1, D2}
       /\ capacity(ret.val[1]) = F(4000000)

\* C6, as the code has it: in Scenario A generate_disk_configurations
\* enumerates 20 selections, a catalog entry being a model that can be
\* bought several times, and returns 73 configurations, each of capacity at
\* least 3e12 and cost at most 1000; two of them are a Stripe of a single
\* two-disk Mirror, of capacity 4e12, and each of the two mirrors one catalog
\* entry with itself, none the two entries with each other.
C6_ScenarioASeventyThree ==
    (Returned /\ ScenarioA)
    => /\ ret.raised = ""
       /\ Len(selections) = 20
       /\ Len(ret.val) = 73
       /\ \A i \in 1..Len(ret.val) :
            /\ capacity(ret.val[i]).v >= 3000000
            /\ cost(ret.val[i]).v <= 100000
       /\ {ret.val[i] : i \in {j \in 1..Len(ret.val) :
                                  SingleMirrorOfTwo(ret.val[j])}}
            = {DiskArray(<<Mirror(<<D1, D1>>)>>),
               DiskArray(<<Mirror(<<D2, D2>>)>>)}
       /\ capacity(DiskArray(<<Mirror(<<D1, D1>>)>>)) = F(4000000)

\* C6 happens: Scenario A has returned, the two-disk Mirror among the
\* configurations.
C6_Witness ==
    /\ Returned /\ ScenarioA
    /\ \E i \in 1..Len(ret.val) : ret.val[i] = DiskArray(<<Mirror(<<D1, D1>>)>>)

Printed == pc = "printed" /\ called = "print_notable_configs"

\* The value of the attribute of criterion k for the i-th configuration.
Value(k, i) ==
    GetAttr(configs[i], notable_attributes[k][2], MISSION_LENGTH[1]).v

\* i is the first configuration that is extremal for criterion k.
FirstExtremal(k, i) ==
    /\ \A j \in 1..Len(configs) :
        IF notable_attributes[k][3] = "__lt__"
            THEN Value(k, i) <= Value(k, j) ELSE Value(k, i) >= Value(k, j)
    /\ \A j \in 1..(i - 1) : Value(k, j) # Value(k, i)

\* C7: for a non-empty list of configurations, print_notable_configs picks
\* for each of the six criteria a configuration that is extremal for it
\* (minimal cost, annual failure and tco; maximal write throughput, read
\* throughput and capacity), the first such in the list; of two
\* configurations where one costs less and holds less, Cheapest and Biggest
\* are different ones.
C7_NotableAreFirstExtremal ==
    (Printed /\ configs # << >>)
    => /\ \A k \in 1..Len(notable_attributes) :
            FirstExtremal(k, ret.val.notable[k])
       /\ (/\ Len(configs) = 2
           /\ \E i, j \in 1..2 :
                /\ cost(configs[i]).v < cost(configs[j]).v
                /\ capacity(configs[i]).v < capacity(configs[j]).v)
          => ret.val.notable[1] # ret.val.notable[5]

\* No configuration can meet the constraints: a budget or a failure
\* probability below zero.
OverConstrained == max_cost < 0 \/ max_afr < 0

\* C8: an empty catalog or an over-constrained search is not an error:
\* nothing raises, generate_disk_configurations returns the empty list, and
\* print_notable_configs prints "No configs." and nothing else.
C8_NothingToFindIsNoError ==
    (disks = None /\ (options = << >> \/ OverConstrained))
    => /\ pc # "raised"
       /\ pc \in {"returned", "printed"} => configs = << >>
       /\ pc = "printed" =>
            /\ ret = Return([out |-> <<"No configs.">>, notable |-> << >>])
            /\ printed[Len(printed)] = "No configs."


\* ------------------------------------------------------------------------
\* Claims about the attributes of arrays (SpecAttributes)
\* ------------------------------------------------------------------------

ReadTwice == pc = "again" /\ disk.kind \in {"Mirror", "Stripe"}

\* C11 as the specification words it: every attribute of an array, tco and
\* mission_loss included, read twice in a run gives the same value both
\* times, whatever was assigned in between.
C11_AttributesArePure == ReadTwice => ret = other

\* C11, as the code has it: every attribute of an array other than tco and
\* mission_loss returns the same value at both reads, whatever was assigned
\* in between; tco and mission_loss read the module global MISSION_LENGTH,
\* and give the same outcome at both reads when MISSION_LENGTH was not
\* assigned in between.
C11_PureButForMissionLength ==
    ReadTwice =>
        /\ called \notin ReadsMissionLength => (ret = other /\ ret.raised = "")
        /\ next = 0 => ret = other

\* C11 happens: MISSION_LENGTH went from 1 to 3 between the two reads of an
\* attribute that does not read it, and the array costs something to run.
C11_Witness ==
    /\ ReadTwice /\ called = "annual_cost" /\ next = 1
    /\ MISSION_LENGTH = <<3>> /\ ret.val.v > 0


IsMirror == disk # None /\ disk.kind = "Mirror"

Read(name) == pc = "once" /\ called = name

\* The time a Mirror stands degraded: the longest whole-disk copy plus the
\* longest replacement time of its disks, in hours.
Window(x) ==
    MaxInt([i \in 1..Len(x.disks) |->
                (x.disks[i].capacity.v \div x.disks[i].speed.v)
                    \div SecondsPerHour])
    + MaxInt([i \in 1..Len(x.disks) |-> x.disks[i].replacement_time])

\* The probability that none of the first i disks of x fails in an hour.
RECURSIVE NoneFailsInAnHour(_, _)
NoneFailsInAnHour(x, i) ==
    IF i = 0 THEN Scale
    ELSE FMul(NoneFailsInAnHour(x, i - 1),
              Scale - x.disks[i].afr \div HoursPerYear)

\* (1 - hourly_failure of the Mirror) ** window
MirrorSurvivesWindow(x) == FPow(NoneFailsInAnHour(x, Len(x.disks)), Window(x))

\* (1 - hourly_failure of one member) ** window
MemberSurvivesWindow(x) ==
    FPow(Scale - x.disks[1].afr \div HoursPerYear, Window(x))

SumOfAfr(x) == SumInt([i \in 1..Len(x.disks) |-> x.disks[i].afr])

\* C12 as the specification words it: for a Mirror of N copies of a disk,
\* rebuild_failure = 1 - s^(N-1), s = (1 - hourly failure of one
\* member)^(rebuild_time + replacement_time).
C12_AnySurvivorFails ==
    (IsMirror /\ Read("rebuild_failure") /\ Cardinality(Range(disk.disks)) = 1)
    => ret = Return(F(Scale - FPow(MemberSurvivesWindow(disk),
                                   Len(disk.disks) - 1)))

\* C12, as the code has it: for a Mirror of N members
\* rebuild_failure = (1 - s)^(N-1), the probability that all N-1 others
\* fail in the window, where s = (1 - h)^(rebuild_time + replacement_time)
\* and h is the hourly failure of the Mirror itself, the probability that
\* any of its N members fails in an hour; so it is 1 for N = 1 and 1 - s for
\* N = 2; and annual_failure = rebuild_failure * rebuilds_per_year, the
\* latter the sum of the members' AFRs.
C12_AllSurvivorsFail ==
    LET rf == FPow(Scale - MirrorSurvivesWindow(disk), Len(disk.disks) - 1)
    IN  /\ (IsMirror /\ Read("rebuild_failure")) =>
            /\ ret = Return(F(rf))
            /\ Len(disk.disks) = 1 => ret.val.v = Scale
            /\ Len(disk.disks) = 2 =>
                    ret.val.v = Scale - MirrorSurvivesWindow(disk)
        /\ (IsMirror /\ Read("rebuilds_per_year")) =>
            ret = Return(F(SumOfAfr(disk)))
        /\ (IsMirror /\ Read("annual_failure")) =>
            ret = Return(F(FMul(rf, SumOfAfr(disk))))

\* C12 happens: rebuild_failure was read of a Mirror of three disks, and it
\* is neither 0 nor 1.
C12_Witness ==
    /\ IsMirror /\ Read("rebuild_failure") /\ Len(disk.disks) = 3
    /\ ret.val.v > 0 /\ ret.val.v < Scale


\* ------------------------------------------------------------------------
\* More claims about _generate_disk_configurations (SpecAssemble)
\* ------------------------------------------------------------------------

\* The length of the longest prefix of lst whose elements all equal lst[1].
LeadingRun(lst) ==
    IF lst = << >> THEN 0
    ELSE CHOOSE n \in 1..Len(lst) :
            /\ \A i \in 1..n : lst[i] = lst[1]
            /\ n < Len(lst) => lst[n + 1] # lst[1]

\* C13: count_sames returns the length of the maximal leading run of
\* elements equal to the first, 0 for the empty list, so that the run
\* peeled off by _generate_disk_configurations and the remainder are
\* together the list it was given: every Stripe built uses each disk of the
\* list exactly once, none dropped and none duplicated.
C13_CountSamesIsLeadingRun ==
    Assembled =>
        /\ count_sames(selection) = LeadingRun(selection)
        /\ (RejectNothing /\ selection # << >>) =>
            \A i \in 1..Len(ret.val) : UsesEachDiskOnce(ret.val[i], selection)


\* ------------------------------------------------------------------------
\* More claims about the attributes of arrays (SpecAttributes)
\* ------------------------------------------------------------------------

\* A Stripe of Mirrors of one disk each.
StripeOfSingles ==
    /\ disk # None /\ disk.kind = "Stripe"
    /\ \A i \in 1..Len(disk.disks) :
        disk.disks[i].kind = "Mirror" /\ Len(disk.disks[i].disks) = 1

\* The plain Stripe of the disks of a Stripe of single-disk Mirrors.
PlainStripe(x) == DiskArray([i \in 1..Len(x.disks) |-> x.disks[i].disks[1]])

\* C14: a Mirror of a single disk has rebuild_failure exactly 1 and an
\* annual_failure equal to the AFR of its disk, and a Stripe of single-disk
\* Mirrors has the capacity, the read and write throughput and the
\* annual_failure of the plain Stripe of the same disks.
C14_SingleDiskMirrorIsItsDisk ==
    /\ (IsMirror /\ Len(disk.disks) = 1) =>
        /\ Read("rebuild_failure") => ret = Return(F(Scale))
        /\ Read("annual_failure") => ret = Return(F(disk.disks[1].afr))
    /\ (StripeOfSingles /\ pc = "once"
            /\ called \in {"capacity", "read_throughput", "write_throughput",
                           "annual_failure"})
        => ret = getattr(PlainStripe(disk), called, MISSION_LENGTH)

\* C14 happens: annual_failure was read of a Stripe of two single-disk
\* Mirrors of different disks.
C14_Witness ==
    /\ StripeOfSingles /\ Read("annual_failure") /\ Len(disk.disks) = 2
    /\ disk.disks[1].disks[1].afr # disk.disks[2].disks[1].afr
    /\ ret.val.v > disk.disks[1].disks[1].afr


\* ------------------------------------------------------------------------
\* More claims about _generate_disk_selections (SpecSelect)
\* ------------------------------------------------------------------------

\* C15: for every finite catalog of disks of cost >= 0 and every finite
\* max_cost the enumeration of selections terminates: the call returns, the
\* recursion does not go on until the interpreter's recursion limit.
C15_EnumerationTerminates ==
    (pc = "first"
        /\ \A i \in 1..Len(options) : options[i].cost.v >= 0)
    => ret.raised = ""

\* ------------------------------------------------------------------------
\* More claims about generate_disk_configurations (Spec)
\* ------------------------------------------------------------------------

\* C16: in every selection that _generate_disk_selections emits the
\* occurrences of a disk are contiguous, and every configuration that
\* generate_disk_configurations builds from the enumerated selections holds
\* in its mirrors exactly the disks of one of them, with the same
\* multiplicities, and costs at most max_cost.
C16_ConfigurationsUseTheirSelection ==
    (disks = None /\ pc \in {"loop", "returned", "printed"})
    => /\ \A i \in 1..Len(selections) : Contiguous(selections[i])
       /\ \A i \in 1..Len(configs) :
            /\ \E j \in 1..Len(selections) :
                    UsesEachDiskOnce(configs[i], selections[j])
            /\ cost(configs[i]).v <= max_cost

====
